---------------------------- MODULE Spec2Model ----------------------------
(***************************************************************************)
(* Model of the X11 autoclicker (src/src/main.rs): the hotkey thread, the  *)
(* click thread, the GUI's writes to the shared state, and the X server    *)
(* as far as the two threads' connections see it.                          *)
(*                                                                         *)
(* Units.  The program computes in f64 seconds; the model computes in      *)
(* integers: a rate (cps) in thousandths of a click per second, a duty in  *)
(* hundredths of a percent, a time in microseconds.                        *)
(***************************************************************************)
EXTENDS Integers, Sequences, FiniteSets, TLC

VARIABLES
    settings,      \* Arc<Mutex<Settings>>: [cps, duty, button_name, hotkey]
    running,       \* Arc<AtomicBool> running
    should_exit,   \* Arc<AtomicBool> should_exit
    gui_pc,        \* GuiApp: "frame" | "loaded" | "drop" | "dropped"
    gui_running,   \* update(): the value loaded from running in this frame
    hk_pc,         \* hotkey_thread: position
    hk_i,          \* hotkey_thread: index into MOD_VARIANTS of the running for loop
    last_keycode,  \* hotkey_thread: last_keycode (0 before it is initialised)
    hk_nk,         \* hotkey_thread: nk of the rebind block (0 outside it)
    hk_new_state,  \* hotkey_thread: new_state between the load and the store
    grabs,         \* X server: the <<keycode, modifiers>> pairs the hotkey connection grabs
    xqueue,        \* X server: events queued on the hotkey connection
    ck_pc,         \* click_thread: position
    ck_s,          \* click_thread: the snapshot s of the running cycle (NoSnapshot outside)
    last_button,   \* click_thread: last_button
    pressed,       \* X server: the buttons the click connection holds logically pressed
    emitted,       \* X server: the last button event of the click connection
    last_down,     \* history: the button of the most recent "button down" (1 before any)
    tg_base,       \* history: the value of running left by the last write that was not a toggle
    tg_n,          \* history: toggles stored since that write, counted up to MaxToggles
    tg_raced,      \* history: that write fell between a toggle's load and its store
    ck_sleep,      \* click_thread: microseconds of the sleeper.sleep in progress (0: none)
    ex_downs,      \* history: "button down" events emitted since should_exit was set
    ex_events      \* history: events the hotkey thread consumed since should_exit was set

vars == <<settings, running, should_exit, gui_pc, gui_running, hk_pc, hk_i,
          last_keycode, hk_nk, hk_new_state, grabs, xqueue, ck_pc, ck_s,
          last_button, pressed, emitted, last_down, tg_base, tg_n, tg_raced,
          ck_sleep, ex_downs, ex_events>>

guiVars == <<gui_pc, gui_running>>
hkVars  == <<hk_pc, hk_i, last_keycode, hk_nk, hk_new_state, grabs, xqueue>>
ckVars  == <<ck_pc, ck_s, last_button, pressed, emitted, last_down, ck_sleep>>
tgVars  == <<tg_base, tg_n, tg_raced>>
exVars  == <<ex_downs, ex_events>>

Min(a, b) == IF a <= b THEN a ELSE b
Max(a, b) == IF a >= b THEN a ELSE b

-----------------------------------------------------------------------------
(* Bounds of the model *)

\* Events the X server queues on the hotkey connection before the thread reads one.
MaxQueue == 1
\* Toggles the history counter tg_n tells apart; it stays at this value afterwards.
MaxToggles == 3
\* Events after should_exit that the history counters ex_downs and ex_events tell
\* apart; they stay at this value afterwards.
MaxAfterExit == 2

-----------------------------------------------------------------------------
(* Settings *)

\* Settings::default(): cps 24.32345237573, duty 36.836218324712, in the model's units.
DefaultCps == 24323
DefaultDuty == 3684

BtnLeft   == <<"l", "e", "f", "t">>
BtnMiddle == <<"m", "i", "d", "d", "l", "e">>
BtnRight  == <<"r", "i", "g", "h", "t">>

DefaultSettings ==
    [cps |-> DefaultCps, duty |-> DefaultDuty, button_name |-> BtnLeft, hotkey |-> "F6"]

-----------------------------------------------------------------------------
(* parse_button *)

UpperChars == <<"A","B","C","D","E","F","G","H","I","J","K","L","M",
                "N","O","P","Q","R","S","T","U","V","W","X","Y","Z">>
LowerChars == <<"a","b","c","d","e","f","g","h","i","j","k","l","m",
                "n","o","p","q","r","s","t","u","v","w","x","y","z">>
DigitChars == <<"0","1","2","3","4","5","6","7","8","9">>

\* str::to_lowercase, on the ASCII letters.
LowerChar(c) ==
    IF \E i \in 1..26 : UpperChars[i] = c
    THEN LowerChars[CHOOSE i \in 1..26 : UpperChars[i] = c]
    ELSE c
ToLowercase(name) == [i \in 1..Len(name) |-> LowerChar(name[i])]

IsDigit(c) == \E i \in 1..10 : DigitChars[i] = c
DigitValue(c) == (CHOOSE i \in 1..10 : DigitChars[i] = c) - 1

RECURSIVE DigitsValue(_)
DigitsValue(ds) ==
    IF ds = <<>> THEN 0
    ELSE 10 * DigitsValue(SubSeq(ds, 1, Len(ds) - 1)) + DigitValue(ds[Len(ds)])

\* str::parse::<u32>: an optional "+", then one or more decimal digits; -1 stands
\* for Err.  A text of at most 9 digits cannot overflow a u32; longer ones are not
\* among the model's button names.
ParseU32(b) ==
    LET ds == IF b # <<>> /\ b[1] = "+" THEN Tail(b) ELSE b
    IN  IF ds = <<>> \/ Len(ds) > 9 \/ \E i \in 1..Len(ds) : ~IsDigit(ds[i])
        THEN -1
        ELSE DigitsValue(ds)

\* The mutant: parse_button without its check of the range 1..9.
parse_buttonNoRange(name) ==
    LET b == ToLowercase(name)
        v == IF b = BtnLeft THEN 1
             ELSE IF b = BtnMiddle THEN 2
             ELSE IF b = BtnRight THEN 3
             ELSE ParseU32(b)
    IN  IF v >= 1 THEN v ELSE 0

\* parse_button: Ok(v) is v in 1..9, Err is 0.
parse_button(name) ==
    LET b == ToLowercase(name)
        v == IF b = BtnLeft THEN 1
             ELSE IF b = BtnMiddle THEN 2
             ELSE IF b = BtnRight THEN 3
             ELSE ParseU32(b)
    IN  IF v \in 1..9 THEN v ELSE 0

\* click_thread: parse_button(&s.button_name).unwrap_or(1)
Button(name) == IF parse_button(name) = 0 THEN 1 ELSE parse_button(name)

-----------------------------------------------------------------------------
(* keysym_to_keycode *)

\* XStringToKeysym: the keysym of a name, 0 (NoSymbol) for a name that is none.
XStringToKeysym(name) ==
    CASE name = "F6"  -> 65475
      [] name = "q"   -> 113
      [] name = "Q"   -> 81
      [] name = "F35" -> 65504
      [] OTHER        -> 0

\* XKeysymToKeycode on the display's keyboard mapping: 0 for a keysym no key bears.
XKeysymToKeycode(ks) ==
    CASE ks = 65475 -> 72
      [] ks = 113   -> 24
      [] ks = 81    -> 24
      [] OTHER      -> 0

\* keysym_to_keycode: Ok(kc) is kc > 0, Err is 0.
keysym_to_keycode(name) ==
    LET ks == XStringToKeysym(name)
    IN  IF ks = 0 THEN 0 ELSE XKeysymToKeycode(ks)

\* The keycodes of the keyboard that the model's events carry.
KeyCodes == {24, 72}

LockMask == 2
Mod2Mask == 16
Mod5Mask == 128

\* MOD_VARIANTS: the bitwise ors are sums, the masks being distinct bits.
MOD_VARIANTS ==
    << 0, LockMask, Mod2Mask, Mod5Mask, LockMask + Mod2Mask, LockMask + Mod5Mask,
       Mod2Mask + Mod5Mask, LockMask + Mod2Mask + Mod5Mask >>

NumVariants == Len(MOD_VARIANTS)

\* All the grabs of one keycode.
GrabsOf(kc) == {<<kc, MOD_VARIANTS[i]>> : i \in 1..NumVariants}

-----------------------------------------------------------------------------
(* The timing of one cycle, click_thread lines 175-183 *)

\* The mutant: the rate is floored to 0.1, max(rate, 0.1).
EffectiveCpsFloored(cps) == Max(cps, 100)

\* let cps = if s.cps > 0.0 { s.cps } else { 0.1 }
EffectiveCps(cps) == IF cps > 0 THEN cps ELSE 100

\* let duty = (s.duty / 100.0).clamp(0.0, 1.0), in ten-thousandths
DutyFraction(duty) == Min(Max(duty, 0), 10000)

\* let period = 1.0 / cps, in microseconds
Period(cps) == 1000000000 \div EffectiveCps(cps)

\* period * duty, in microseconds (the product is split to stay within 32 bits)
RawOnTime(cps, duty) ==
    LET p == Period(cps)
        f == DutyFraction(duty)
    IN  (p \div 10000) * f + ((p % 10000) * f) \div 10000

\* let min_press = 0.001_f64
MinPress == 1000
\* Duration::from_millis(5), in microseconds: the sleep of an iteration that is not
\* running
IdleSleep == 5000

\* The mutant: no floor, (period * duty).min(period).
OnTimeNoFloor(cps, duty) == Min(RawOnTime(cps, duty), Period(cps))

\* The mutant: the floor applied last, (period * duty).min(period).max(min_press).
OnTimeFloorLast(cps, duty) == Max(Min(RawOnTime(cps, duty), Period(cps)), MinPress)

\* let on_time = (period * duty).max(min_press).min(period)
OnTime(cps, duty) == Min(Max(RawOnTime(cps, duty), MinPress), Period(cps))

\* let off_time = (period - on_time).max(0.0)
OffTime(cps, duty) == Max(Period(cps) - OnTime(cps, duty), 0)

-----------------------------------------------------------------------------
(* What the operator enters in the GUI *)

\* DragValue clamp_range(0.001..=10000.0) of the rate, clamp_range(0.0..=100.0) of the duty
CpsMin == 1
CpsMax == 10000000
DutyMin == 0
DutyMax == 10000

\* Rates and duties the operator drags the values to (10/s, 10000/s; 50 %, 100 %).
CpsChoices == {10000, 10000000}
DutyChoices == {5000, 10000}
\* Entries of the button ComboBox: "left", "middle", "right", "4" .. "9".
ButtonChoices == {BtnLeft, BtnRight, <<"9">>}
\* Texts of the hotkey field.
HotkeyChoices == {"F6", "q", "Q", "F35", "bogus"}

\* No snapshot s in scope: the click thread is outside the block of a cycle.
NoSnapshot == [cps |-> 0, duty |-> 0, button_name |-> <<>>]

\* No button event emitted yet.
NoEvent == [button |-> 0, press |-> FALSE]

EventTypes == {"KeyPress", "KeyRelease"}

-----------------------------------------------------------------------------
(* Initial state: GuiApp::new() and the two threads just spawned by main *)

Init ==
    /\ settings = DefaultSettings
    /\ running = FALSE
    /\ should_exit = FALSE
    /\ gui_pc = "frame"
    /\ gui_running = FALSE
    /\ hk_pc = "open"
    /\ hk_i = 0
    /\ last_keycode = 0
    /\ hk_nk = 0
    /\ hk_new_state = FALSE
    /\ grabs = {}
    /\ xqueue = <<>>
    /\ ck_pc = "open"
    /\ ck_s = NoSnapshot
    /\ last_button = 1
    /\ pressed = {}
    /\ emitted = NoEvent
    /\ last_down = 1
    /\ tg_base = FALSE
    /\ tg_n = 0
    /\ tg_raced = FALSE
    /\ ck_sleep = 0
    /\ ex_downs = 0
    /\ ex_events = 0

-----------------------------------------------------------------------------
(* History of the writes to running *)

\* A store to running that is not the hotkey thread's toggle.
OtherWrite(v) ==
    /\ running' = v
    /\ tg_base' = v
    /\ tg_n' = 0
    /\ tg_raced' = (hk_pc = "store")

-----------------------------------------------------------------------------
(* GuiApp::update and Drop *)

\* The rate's DragValue is dragged to v.
SetCps(v) ==
    /\ gui_pc = "frame"
    /\ settings' = [settings EXCEPT !.cps = Min(Max(v, CpsMin), CpsMax)]
    /\ UNCHANGED <<running, should_exit, guiVars, hkVars, ckVars, tgVars, exVars>>

GuiSetCps == \E v \in CpsChoices : SetCps(v)

\* The duty's DragValue is dragged to v.
SetDuty(v) ==
    /\ gui_pc = "frame"
    /\ settings' = [settings EXCEPT !.duty = Min(Max(v, DutyMin), DutyMax)]
    /\ UNCHANGED <<running, should_exit, guiVars, hkVars, ckVars, tgVars, exVars>>

GuiSetDuty == \E v \in DutyChoices : SetDuty(v)

\* The entry b of the button ComboBox is selected.
SetButton(b) ==
    /\ gui_pc = "frame"
    /\ settings' = [settings EXCEPT !.button_name = b]
    /\ UNCHANGED <<running, should_exit, guiVars, hkVars, ckVars, tgVars, exVars>>

GuiSetButton == \E b \in ButtonChoices : SetButton(b)

\* The hotkey field is edited to h.
SetHotkey(h) ==
    /\ gui_pc = "frame"
    /\ settings' = [settings EXCEPT !.hotkey = h]
    /\ UNCHANGED <<running, should_exit, guiVars, hkVars, ckVars, tgVars, exVars>>

GuiSetHotkey == \E h \in HotkeyChoices : SetHotkey(h)

\* let running = self.running.load(Ordering::SeqCst)
GuiLoadRunning ==
    /\ gui_pc = "frame"
    /\ gui_pc' = "loaded"
    /\ gui_running' = running
    /\ UNCHANGED <<settings, running, should_exit, hkVars, ckVars, tgVars, exVars>>

\* if !running { if clicked { self.running.store(true) } }
GuiStart ==
    /\ gui_pc = "loaded"
    /\ ~gui_running
    /\ OtherWrite(TRUE)
    /\ gui_pc' = "frame"
    /\ gui_running' = FALSE
    /\ UNCHANGED <<settings, should_exit, hkVars, ckVars, exVars>>

\* else { if clicked { self.running.store(false) } }
GuiStop ==
    /\ gui_pc = "loaded"
    /\ gui_running
    /\ OtherWrite(FALSE)
    /\ gui_pc' = "frame"
    /\ gui_running' = FALSE
    /\ UNCHANGED <<settings, should_exit, hkVars, ckVars, exVars>>

\* The frame ends with neither button clicked.
GuiNoClick ==
    /\ gui_pc = "loaded"
    /\ gui_pc' = "frame"
    /\ gui_running' = FALSE
    /\ UNCHANGED <<settings, running, should_exit, hkVars, ckVars, tgVars, exVars>>

\* Drop: self.should_exit.store(true)
DropSetExit ==
    /\ gui_pc = "frame"
    /\ should_exit' = TRUE
    /\ gui_pc' = "drop"
    /\ UNCHANGED <<settings, running, gui_running, hkVars, ckVars, tgVars, exVars>>

\* The mutant: Drop's second store goes to should_exit, and withdraws the request.
DropClearExit ==
    /\ gui_pc = "drop"
    /\ should_exit' = FALSE
    /\ gui_pc' = "dropped"
    /\ UNCHANGED <<settings, running, gui_running, hkVars, ckVars, tgVars, exVars>>

\* Drop: self.running.store(false)
DropClearRunning ==
    /\ gui_pc = "drop"
    /\ OtherWrite(FALSE)
    /\ gui_pc' = "dropped"
    /\ UNCHANGED <<settings, should_exit, gui_running, hkVars, ckVars, exVars>>

-----------------------------------------------------------------------------
(* The X server, towards the hotkey connection *)

\* A key event is queued on the hotkey connection, which is open and has selected
\* input on the root window; the thread that left on an error reads no event.
KeyEvent(ty, kc) ==
    /\ hk_pc \notin {"open", "err_display", "err_resolve", "close", "done"}
    /\ Len(xqueue) < MaxQueue
    /\ xqueue' = Append(xqueue, [type |-> ty, keycode |-> kc])
    /\ UNCHANGED <<settings, running, should_exit, guiVars, hk_pc, hk_i, last_keycode,
                   hk_nk, hk_new_state, grabs, ckVars, tgVars, exVars>>

XServerKeyEvent == \E ty \in EventTypes, kc \in KeyCodes : KeyEvent(ty, kc)

-----------------------------------------------------------------------------
(* hotkey_thread *)

\* The mutant: a display that does not open is fatal for the process; the thread
\* sets should_exit before it returns.
HkOpenDisplayFatal ==
    /\ hk_pc = "open"
    /\ \/ hk_pc' = "init_resolve" /\ should_exit' = should_exit
       \/ hk_pc' = "err_display" /\ should_exit' = TRUE
    /\ UNCHANGED <<settings, running, guiVars, hk_i, last_keycode, hk_nk,
                   hk_new_state, grabs, xqueue, ckVars, tgVars, exVars>>

\* XOpenDisplay: the display opens, or the thread bails out.
HkOpenDisplay ==
    /\ hk_pc = "open"
    /\ hk_pc' \in {"init_resolve", "err_display"}
    /\ UNCHANGED <<settings, running, should_exit, guiVars, hk_i, last_keycode, hk_nk,
                   hk_new_state, grabs, xqueue, ckVars, tgVars, exVars>>

\* let mut last_keycode = keysym_to_keycode(dpy, &s0.hotkey)?
HkInitResolve ==
    /\ hk_pc = "init_resolve"
    /\ LET kc == keysym_to_keycode(settings.hotkey)
       IN  IF kc = 0
           THEN /\ hk_pc' = "err_resolve"
                /\ UNCHANGED <<last_keycode, hk_i>>
           ELSE /\ hk_pc' = "init_grab"
                /\ last_keycode' = kc
                /\ hk_i' = 1
    /\ UNCHANGED <<settings, running, should_exit, guiVars, hk_nk, hk_new_state, grabs,
                   xqueue, ckVars, tgVars, exVars>>

\* for m in MOD_VARIANTS { XGrabKey(dpy, last_keycode, m, ..) }, one call; XFlush after the last
HkInitGrab ==
    /\ hk_pc = "init_grab"
    /\ grabs' = grabs \cup {<<last_keycode, MOD_VARIANTS[hk_i]>>}
    /\ IF hk_i < NumVariants
       THEN hk_i' = hk_i + 1 /\ hk_pc' = hk_pc
       ELSE hk_i' = 0 /\ hk_pc' = "loop"
    /\ UNCHANGED <<settings, running, should_exit, guiVars, last_keycode, hk_nk,
                   hk_new_state, xqueue, ckVars, tgVars, exVars>>

\* while !should_exit.load(Ordering::SeqCst)
HkLoopHead ==
    /\ hk_pc = "loop"
    /\ IF should_exit
       THEN hk_pc' = "cleanup" /\ hk_i' = 1
       ELSE hk_pc' = "resolve" /\ hk_i' = hk_i
    /\ UNCHANGED <<settings, running, should_exit, guiVars, last_keycode, hk_nk,
                   hk_new_state, grabs, xqueue, ckVars, tgVars, exVars>>

\* if let Some(nk) = { lock, clone, keysym_to_keycode(..).ok() } { if nk != last_keycode
HkResolve ==
    /\ hk_pc = "resolve"
    /\ hk_nk' = keysym_to_keycode(settings.hotkey)
    /\ IF hk_nk' # 0 /\ hk_nk' # last_keycode
       THEN hk_pc' = "ungrab" /\ hk_i' = 1
       ELSE hk_pc' = "events" /\ hk_i' = hk_i
    /\ UNCHANGED <<settings, running, should_exit, guiVars, last_keycode, hk_new_state,
                   grabs, xqueue, ckVars, tgVars, exVars>>

\* The mutant: the rebind releases nothing.
HkUngrabNothing ==
    /\ hk_pc = "ungrab"
    /\ grabs' = grabs
    /\ IF hk_i < NumVariants
       THEN hk_i' = hk_i + 1 /\ hk_pc' = hk_pc
       ELSE hk_i' = 1 /\ hk_pc' = "grab"
    /\ UNCHANGED <<settings, running, should_exit, guiVars, last_keycode, hk_nk,
                   hk_new_state, xqueue, ckVars, tgVars, exVars>>

\* for m in MOD_VARIANTS { XUngrabKey(dpy, last_keycode, m, root) }, one call
HkUngrab ==
    /\ hk_pc = "ungrab"
    /\ grabs' = grabs \ {<<last_keycode, MOD_VARIANTS[hk_i]>>}
    /\ IF hk_i < NumVariants
       THEN hk_i' = hk_i + 1 /\ hk_pc' = hk_pc
       ELSE hk_i' = 1 /\ hk_pc' = "grab"
    /\ UNCHANGED <<settings, running, should_exit, guiVars, last_keycode, hk_nk,
                   hk_new_state, xqueue, ckVars, tgVars, exVars>>

\* The mutant: the rebind grabs the key with no modifier only.
HkGrabPlainOnly ==
    /\ hk_pc = "grab"
    /\ grabs' = grabs \cup {<<hk_nk, MOD_VARIANTS[1]>>}
    /\ IF hk_i < NumVariants
       THEN hk_i' = hk_i + 1 /\ hk_pc' = hk_pc
       ELSE hk_i' = 0 /\ hk_pc' = "record"
    /\ UNCHANGED <<settings, running, should_exit, guiVars, last_keycode, hk_nk,
                   hk_new_state, xqueue, ckVars, tgVars, exVars>>

\* for m in MOD_VARIANTS { XGrabKey(dpy, nk, m, ..) }, one call
HkGrab ==
    /\ hk_pc = "grab"
    /\ grabs' = grabs \cup {<<hk_nk, MOD_VARIANTS[hk_i]>>}
    /\ IF hk_i < NumVariants
       THEN hk_i' = hk_i + 1 /\ hk_pc' = hk_pc
       ELSE hk_i' = 0 /\ hk_pc' = "record"
    /\ UNCHANGED <<settings, running, should_exit, guiVars, last_keycode, hk_nk,
                   hk_new_state, xqueue, ckVars, tgVars, exVars>>

\* last_keycode = nk; XFlush(dpy)
HkRecord ==
    /\ hk_pc = "record"
    /\ last_keycode' = hk_nk
    /\ hk_pc' = "events"
    /\ UNCHANGED <<settings, running, should_exit, guiVars, hk_i, hk_nk, hk_new_state,
                   grabs, xqueue, ckVars, tgVars, exVars>>

\* The mutant: the thread drains the queue (while XPending(dpy) > 0) before it goes
\* back to the loop head.
HkEventsDrain ==
    /\ hk_pc = "events"
    /\ hk_nk' = 0
    /\ IF xqueue # <<>>
       THEN /\ xqueue' = Tail(xqueue)
            /\ hk_pc' = IF Head(xqueue).type = "KeyPress"
                           /\ Head(xqueue).keycode = last_keycode
                        THEN "load" ELSE "events"
       ELSE /\ xqueue' = xqueue
            /\ hk_pc' = "loop"
    /\ ex_events' = IF should_exit /\ xqueue # <<>>
                    THEN Min(ex_events + 1, MaxAfterExit) ELSE ex_events
    /\ UNCHANGED <<settings, running, should_exit, guiVars, hk_i, last_keycode,
                   hk_new_state, grabs, ckVars, tgVars, ex_downs>>

\* The mutant: any KeyPress toggles, whatever its keycode.
HkEventsAnyKey ==
    /\ hk_pc = "events"
    /\ hk_nk' = 0
    /\ IF xqueue # <<>>
       THEN /\ xqueue' = Tail(xqueue)
            /\ hk_pc' = IF Head(xqueue).type = "KeyPress" THEN "load" ELSE "loop"
       ELSE /\ xqueue' = xqueue
            /\ hk_pc' = "loop"
    /\ ex_events' = IF should_exit /\ xqueue # <<>>
                    THEN Min(ex_events + 1, MaxAfterExit) ELSE ex_events
    /\ UNCHANGED <<settings, running, should_exit, guiVars, hk_i, last_keycode,
                   hk_new_state, grabs, ckVars, tgVars, ex_downs>>

\* if XPending(dpy) > 0 { XNextEvent; if KeyPress { if keycode == last_keycode {
\* } else { sleep(20 ms) }
HkEvents ==
    /\ hk_pc = "events"
    /\ hk_nk' = 0
    /\ IF xqueue # <<>>
       THEN /\ xqueue' = Tail(xqueue)
            /\ hk_pc' = IF Head(xqueue).type = "KeyPress"
                           /\ Head(xqueue).keycode = last_keycode
                        THEN "load" ELSE "loop"
       ELSE /\ xqueue' = xqueue
            /\ hk_pc' = "loop"
    /\ ex_events' = IF should_exit /\ xqueue # <<>>
                    THEN Min(ex_events + 1, MaxAfterExit) ELSE ex_events
    /\ UNCHANGED <<settings, running, should_exit, guiVars, hk_i, last_keycode,
                   hk_new_state, grabs, ckVars, tgVars, ex_downs>>

\* let new_state = !running.load(Ordering::SeqCst)
HkLoad ==
    /\ hk_pc = "load"
    /\ hk_new_state' = ~running
    /\ hk_pc' = "store"
    /\ UNCHANGED <<settings, running, should_exit, guiVars, hk_i, last_keycode, hk_nk,
                   grabs, xqueue, ckVars, tgVars, exVars>>

\* The mutant: the key press starts the clicking and never stops it.
HkStoreTrue ==
    /\ hk_pc = "store"
    /\ running' = TRUE
    /\ tg_n' = Min(tg_n + 1, MaxToggles)
    /\ hk_new_state' = FALSE
    /\ hk_pc' = "loop"
    /\ UNCHANGED <<settings, should_exit, guiVars, hk_i, last_keycode, hk_nk, grabs,
                   xqueue, ckVars, tg_base, tg_raced, exVars>>

\* running.store(new_state, Ordering::SeqCst)
HkStore ==
    /\ hk_pc = "store"
    /\ running' = hk_new_state
    /\ tg_n' = Min(tg_n + 1, MaxToggles)
    /\ hk_new_state' = FALSE
    /\ hk_pc' = "loop"
    /\ UNCHANGED <<settings, should_exit, guiVars, hk_i, last_keycode, hk_nk, grabs,
                   xqueue, ckVars, tg_base, tg_raced, exVars>>

\* The mutant: the cleanup releases the grab without lock modifiers only.
HkCleanupPlainOnly ==
    /\ hk_pc = "cleanup"
    /\ grabs' = grabs \ {<<last_keycode, MOD_VARIANTS[1]>>}
    /\ IF hk_i < NumVariants
       THEN hk_i' = hk_i + 1 /\ hk_pc' = hk_pc
       ELSE hk_i' = 0 /\ hk_pc' = "close"
    /\ UNCHANGED <<settings, running, should_exit, guiVars, last_keycode, hk_nk,
                   hk_new_state, xqueue, ckVars, tgVars, exVars>>

\* Cleanup: for m in MOD_VARIANTS { XUngrabKey(dpy, last_keycode, m, root) }, one call
HkCleanup ==
    /\ hk_pc = "cleanup"
    /\ grabs' = grabs \ {<<last_keycode, MOD_VARIANTS[hk_i]>>}
    /\ IF hk_i < NumVariants
       THEN hk_i' = hk_i + 1 /\ hk_pc' = hk_pc
       ELSE hk_i' = 0 /\ hk_pc' = "close"
    /\ UNCHANGED <<settings, running, should_exit, guiVars, last_keycode, hk_nk,
                   hk_new_state, xqueue, ckVars, tgVars, exVars>>

\* XFlush(dpy); XCloseDisplay(dpy): the connection's queue goes with it
HkClose ==
    /\ hk_pc = "close"
    /\ hk_pc' = "done"
    /\ xqueue' = <<>>
    /\ UNCHANGED <<settings, running, should_exit, guiVars, hk_i, last_keycode, hk_nk,
                   hk_new_state, grabs, ckVars, tgVars, exVars>>

-----------------------------------------------------------------------------
(* click_thread *)

\* XTestFakeButtonEvent(dpy, b, is_press, CurrentTime); XFlush(dpy)
FakeButtonEvent(b, is_press) ==
    /\ pressed' = IF is_press THEN pressed \cup {b} ELSE pressed \ {b}
    /\ emitted' = [button |-> b, press |-> is_press]
    /\ last_down' = IF is_press THEN b ELSE last_down

\* XOpenDisplay: the display opens, or the thread bails out.
CkOpenDisplay ==
    /\ ck_pc = "open"
    /\ ck_pc' \in {"loop", "err_display"}
    /\ UNCHANGED <<settings, running, should_exit, guiVars, hkVars, ck_s, last_button,
                   pressed, emitted, last_down, tgVars, exVars, ck_sleep>>

\* while !should_exit.load(Ordering::SeqCst)
CkLoopHead ==
    /\ ck_pc = "loop"
    /\ ck_pc' = IF should_exit THEN "final" ELSE "check"
    /\ UNCHANGED <<settings, running, should_exit, guiVars, hkVars, ck_s, last_button,
                   pressed, emitted, last_down, tgVars, exVars, ck_sleep>>

\* The mutant: the cycle is entered whatever running is.
CkCheckRunningAlways ==
    /\ ck_pc = "check"
    /\ ck_pc' = "snapshot"
    /\ ck_sleep' = 0
    /\ UNCHANGED <<settings, running, should_exit, guiVars, hkVars, ck_s, last_button,
                   pressed, emitted, last_down, tgVars, exVars>>

\* if running.load(Ordering::SeqCst) { .. } else { sleeper.sleep(5 ms) }
CkCheckRunning ==
    /\ ck_pc = "check"
    /\ ck_pc' = IF running THEN "snapshot" ELSE "sleep"
    /\ ck_sleep' = IF running THEN 0 ELSE IdleSleep
    /\ UNCHANGED <<settings, running, should_exit, guiVars, hkVars, ck_s, last_button,
                   pressed, emitted, last_down, tgVars, exVars>>

\* sleeper.sleep(Duration::from_millis(5)) is over
CkSleep ==
    /\ ck_pc = "sleep"
    /\ ck_pc' = "loop"
    /\ ck_sleep' = 0
    /\ UNCHANGED <<settings, running, should_exit, guiVars, hkVars, ck_s, last_button,
                   pressed, emitted, last_down, tgVars, exVars>>

\* let s = settings.lock().unwrap().clone(); .. last_button = button (s.hotkey is not read)
CkSnapshot ==
    /\ ck_pc = "snapshot"
    /\ ck_s' = [cps |-> settings.cps, duty |-> settings.duty,
                button_name |-> settings.button_name]
    /\ last_button' = Button(settings.button_name)
    /\ ck_pc' = "press"
    /\ UNCHANGED <<settings, running, should_exit, guiVars, hkVars, pressed, emitted,
                   last_down, tgVars, exVars, ck_sleep>>

\* The mutant: the press computes its sleep from the settings as they are now, not
\* from the snapshot.
CkPressTimingReread ==
    /\ ck_pc = "press"
    /\ FakeButtonEvent(Button(ck_s.button_name), TRUE)
    /\ ck_pc' = "hold"
    /\ ck_sleep' = OnTime(settings.cps, settings.duty)
    /\ ex_downs' = IF should_exit THEN Min(ex_downs + 1, MaxAfterExit) ELSE ex_downs
    /\ UNCHANGED <<settings, running, should_exit, guiVars, hkVars, ck_s, last_button,
                   tgVars, ex_events>>

\* Press: XTestFakeButtonEvent(dpy, button, True, ..); sleeper.sleep(on_time) begins
CkPress ==
    /\ ck_pc = "press"
    /\ FakeButtonEvent(Button(ck_s.button_name), TRUE)
    /\ ck_pc' = "hold"
    /\ ck_sleep' = OnTime(ck_s.cps, ck_s.duty)
    /\ ex_downs' = IF should_exit THEN Min(ex_downs + 1, MaxAfterExit) ELSE ex_downs
    /\ UNCHANGED <<settings, running, should_exit, guiVars, hkVars, ck_s, last_button,
                   tgVars, ex_events>>

\* The mutant: the release reads the button of the settings again.
CkReleaseReread ==
    /\ ck_pc = "hold"
    /\ FakeButtonEvent(Button(settings.button_name), FALSE)
    /\ IF OffTime(ck_s.cps, ck_s.duty) > 0
       THEN ck_pc' = "idle" /\ ck_s' = ck_s
       ELSE ck_pc' = "loop" /\ ck_s' = NoSnapshot
    /\ ck_sleep' = Max(OffTime(ck_s.cps, ck_s.duty), 0)
    /\ UNCHANGED <<settings, running, should_exit, guiVars, hkVars, last_button, tgVars, exVars>>

\* The mutant: the idle sleep is entered whatever off_time is.
CkReleaseAlwaysIdle ==
    /\ ck_pc = "hold"
    /\ FakeButtonEvent(Button(ck_s.button_name), FALSE)
    /\ ck_pc' = "idle"
    /\ ck_s' = ck_s
    /\ ck_sleep' = OffTime(ck_s.cps, ck_s.duty)
    /\ UNCHANGED <<settings, running, should_exit, guiVars, hkVars, last_button, tgVars, exVars>>

\* sleep(on_time) is over. Release: XTestFakeButtonEvent(dpy, button, False, ..);
\* if off_time > 0.0 { sleeper.sleep(off_time) begins }
CkRelease ==
    /\ ck_pc = "hold"
    /\ FakeButtonEvent(Button(ck_s.button_name), FALSE)
    /\ IF OffTime(ck_s.cps, ck_s.duty) > 0
       THEN ck_pc' = "idle" /\ ck_s' = ck_s
       ELSE ck_pc' = "loop" /\ ck_s' = NoSnapshot
    /\ ck_sleep' = Max(OffTime(ck_s.cps, ck_s.duty), 0)
    /\ UNCHANGED <<settings, running, should_exit, guiVars, hkVars, last_button, tgVars, exVars>>

\* sleeper.sleep(off_time) is over
CkIdle ==
    /\ ck_pc = "idle"
    /\ ck_pc' = "loop"
    /\ ck_s' = NoSnapshot
    /\ ck_sleep' = 0
    /\ UNCHANGED <<settings, running, should_exit, guiVars, hkVars, last_button,
                   pressed, emitted, last_down, tgVars, exVars>>

\* The mutant: the final release is of the primary button.
CkFinalReleasePrimary ==
    /\ ck_pc = "final"
    /\ FakeButtonEvent(1, FALSE)
    /\ ck_pc' = "close"
    /\ UNCHANGED <<settings, running, should_exit, guiVars, hkVars, ck_s, last_button,
                   tgVars, exVars, ck_sleep>>

\* Safety: XTestFakeButtonEvent(dpy, last_button, False, ..); XFlush(dpy)
CkFinalRelease ==
    /\ ck_pc = "final"
    /\ FakeButtonEvent(last_button, FALSE)
    /\ ck_pc' = "close"
    /\ UNCHANGED <<settings, running, should_exit, guiVars, hkVars, ck_s, last_button,
                   tgVars, exVars, ck_sleep>>

\* XCloseDisplay(dpy)
CkClose ==
    /\ ck_pc = "close"
    /\ ck_pc' = "done"
    /\ UNCHANGED <<settings, running, should_exit, guiVars, hkVars, ck_s, last_button,
                   pressed, emitted, last_down, tgVars, exVars, ck_sleep>>

-----------------------------------------------------------------------------
(* The program *)

GuiStep ==
    \/ GuiSetCps \/ GuiSetDuty \/ GuiSetButton \/ GuiSetHotkey
    \/ GuiLoadRunning \/ GuiStart \/ GuiStop \/ GuiNoClick
    \/ DropSetExit \/ DropClearRunning

HkStep ==
    \/ HkOpenDisplay \/ HkInitResolve \/ HkInitGrab \/ HkLoopHead \/ HkResolve
    \/ HkUngrab \/ HkGrab \/ HkRecord \/ HkEvents \/ HkLoad \/ HkStore
    \/ HkCleanup \/ HkClose

CkStep ==
    \/ CkOpenDisplay \/ CkLoopHead \/ CkCheckRunning \/ CkSleep \/ CkSnapshot
    \/ CkPress \/ CkRelease \/ CkIdle \/ CkFinalRelease \/ CkClose

Next == GuiStep \/ HkStep \/ CkStep \/ XServerKeyEvent

Spec == Init /\ [][Next]_vars

-----------------------------------------------------------------------------
(* The two threads apart.  They share settings, running and should_exit, and    *)
(* nothing else: the click thread writes none of the three, and reads neither   *)
(* settings.hotkey nor the hotkey connection; the hotkey thread reads running,  *)
(* should_exit and settings.hotkey, and writes running.  Each specification    *)
(* below runs one thread with every other writer of what that thread reads.    *)

\* The hotkey thread, the X server's key events, and the GUI's writes to the hotkey
\* text, to running and to should_exit.
NextHotkey ==
    \/ HkStep
    \/ XServerKeyEvent
    \/ GuiSetHotkey
    \/ GuiLoadRunning \/ GuiStart \/ GuiStop \/ GuiNoClick
    \/ DropSetExit \/ DropClearRunning

SpecHotkey == Init /\ [][NextHotkey]_vars

\* The click thread, and the GUI's writes to the rate, the duty, the button, to
\* running and to should_exit.
NextClick ==
    \/ CkStep
    \/ GuiSetCps \/ GuiSetDuty \/ GuiSetButton
    \/ GuiLoadRunning \/ GuiStart \/ GuiStop \/ GuiNoClick
    \/ DropSetExit \/ DropClearRunning

SpecClick == Init /\ [][NextClick]_vars

\* The click thread is an operating-system thread of its own (main, thread::spawn):
\* it is scheduled again and again, and each of its sleeps ends.  The GUI has no
\* such condition: the operator may never click again.
SpecClickFair == SpecClick /\ WF_vars(CkStep)

\* The whole program in a session in which the operator makes the edits that reach
\* both threads: the button goes to "9", the hotkey text to "q" and back to "F6",
\* and the X server reports key presses.  The rate and the duty keep their defaults
\* (the click thread on every rate and duty is SpecClick and SpecTiming).
GuiSetButton9 == SetButton(<<"9">>)
GuiSetHotkeyOther == \E h \in {"F6", "q"} : SetHotkey(h)
XServerKeyPress == \E kc \in KeyCodes : KeyEvent("KeyPress", kc)

NextProgram ==
    \/ HkStep
    \/ CkStep
    \/ XServerKeyPress
    \/ GuiSetButton9 \/ GuiSetHotkeyOther
    \/ GuiLoadRunning \/ GuiStart \/ GuiStop \/ GuiNoClick
    \/ DropSetExit \/ DropClearRunning

SpecProgram == Init /\ [][NextProgram]_vars

\* The whole program in a session in which the operator uses the hotkey only: the
\* hotkey toggles running, the hotkey text is edited, the window is closed.  Both
\* threads are operating-system threads of their own (main, thread::spawn): each is
\* scheduled again and again, and each of its sleeps ends.  Neither the GUI nor the
\* X server has such a condition.
NextShutdown ==
    \/ HkStep
    \/ CkStep
    \/ XServerKeyPress
    \/ GuiSetHotkeyOther
    \/ DropSetExit \/ DropClearRunning

SpecShutdown == Init /\ [][NextShutdown]_vars /\ WF_vars(HkStep) /\ WF_vars(CkStep)

\* The click thread on settings drawn from bounded sets, which hold the ends of the
\* GUI's ranges (CpsMin, CpsMax, DutyMin, DutyMax) and values no DragValue admits
\* (a rate <= 0, a duty outside 0 .. 100 %); the settings are not rewritten.
CpsInputs ==
    {-1000, 0, CpsMin, 50, 99, 100, 101, 1000, 10000, DefaultCps, 999000, 1000000,
     1001000, 3000000, CpsMax}
DutyInputs == {-100, DutyMin, 1, 10, 100, DefaultDuty, 5000, 9999, DutyMax, 10001, 20000}

InitTiming ==
    /\ settings \in {[DefaultSettings EXCEPT !.cps = c, !.duty = d] :
                        c \in CpsInputs, d \in DutyInputs}
    /\ running = FALSE
    /\ should_exit = FALSE
    /\ gui_pc = "frame"
    /\ gui_running = FALSE
    /\ hk_pc = "open"
    /\ hk_i = 0
    /\ last_keycode = 0
    /\ hk_nk = 0
    /\ hk_new_state = FALSE
    /\ grabs = {}
    /\ xqueue = <<>>
    /\ ck_pc = "open"
    /\ ck_s = NoSnapshot
    /\ last_button = 1
    /\ pressed = {}
    /\ emitted = NoEvent
    /\ last_down = 1
    /\ tg_base = FALSE
    /\ tg_n = 0
    /\ tg_raced = FALSE
    /\ ck_sleep = 0
    /\ ex_downs = 0
    /\ ex_events = 0

NextTiming ==
    \/ CkStep
    \/ GuiLoadRunning \/ GuiStart \/ GuiStop \/ GuiNoClick
    \/ DropSetExit \/ DropClearRunning

SpecTiming == InitTiming /\ [][NextTiming]_vars

\* The click thread on button selectors drawn from bounded sets, the ones the
\* ComboBox of the GUI does not offer included (Settings.button_name is a String:
\* parse_button is written for any text).  The names in three spellings; numerals,
\* with the sign and the leading zero that u32::from_str accepts; texts that
\* parse_button rejects.
NameInputs ==
    { <<"l","e","f","t">>, <<"L","e","f","t">>, <<"L","E","F","T">>,
      <<"m","i","d","d","l","e">>, <<"M","i","d","d","l","e">>, <<"m","I","d","D","l","E">>,
      <<"r","i","g","h","t">>, <<"R","i","g","h","t">>, <<"R","I","G","H","T">> }
NumeralInputs ==
    { <<"1">>, <<"2">>, <<"5">>, <<"9">>, <<"+","5">>, <<"0","5">> }
RejectedInputs ==
    { <<"0">>, <<"1","0">>, <<"9","9">>, <<"+","0">>, <<"-","1">>, <<"x">>, <<>>,
      <<"l","e","f","t"," ">>, <<"l","e","f">>, <<"1","x">> }
ButtonInputs == NameInputs \cup NumeralInputs \cup RejectedInputs

InitButton ==
    /\ settings \in {[DefaultSettings EXCEPT !.button_name = b] : b \in ButtonInputs}
    /\ running = FALSE
    /\ should_exit = FALSE
    /\ gui_pc = "frame"
    /\ gui_running = FALSE
    /\ hk_pc = "open"
    /\ hk_i = 0
    /\ last_keycode = 0
    /\ hk_nk = 0
    /\ hk_new_state = FALSE
    /\ grabs = {}
    /\ xqueue = <<>>
    /\ ck_pc = "open"
    /\ ck_s = NoSnapshot
    /\ last_button = 1
    /\ pressed = {}
    /\ emitted = NoEvent
    /\ last_down = 1
    /\ tg_base = FALSE
    /\ tg_n = 0
    /\ tg_raced = FALSE
    /\ ck_sleep = 0
    /\ ex_downs = 0
    /\ ex_events = 0

SpecButton == InitButton /\ [][NextTiming]_vars

-----------------------------------------------------------------------------
(* Claims *)

\* The snapshot s of a cycle is in scope.
InCycle == ck_pc \in {"press", "hold", "idle"}

\* The click thread has left its loop (or never entered it).
CkLeftLoop == ck_pc \in {"final", "close", "done", "err_display"}

\* C1: once the click thread has emitted its final event and until it has closed its
\* connection, the last button event it emitted is a "button up" for the button of
\* its most recent "button down" (button 1 if it never pressed one), whenever
\* should_exit was set.
C1_FinalEventIsRelease ==
    ck_pc \in {"close", "done"} => emitted = [button |-> last_down, press |-> FALSE]

\* C1 witness: should_exit was set while running was still true (Drop is between its
\* two stores), and the thread has closed its connection after a cycle on button 9.
C1_Witness ==
    /\ ck_pc = "done"
    /\ gui_pc = "drop"
    /\ running
    /\ last_down = 9
    /\ emitted = [button |-> 9, press |-> FALSE]

\* C2: at most one button is logically pressed; a button is pressed only during the
\* on_time hold, and it is the button of that cycle's "button down", so every down
\* is released before the next one, also when the button setting is rewritten or
\* running is cleared during the hold; no button is pressed once the thread has left
\* its loop.
C2_NoStuckButton ==
    /\ Cardinality(pressed) <= 1
    /\ pressed = IF ck_pc = "hold" THEN {last_down} ELSE {}
    /\ ck_pc = "hold" => last_down = Button(ck_s.button_name)
    /\ CkLeftLoop => pressed = {}

\* C2 witness: a cycle has released its button after the button setting was
\* rewritten and running was cleared.
C2_Witness ==
    /\ ck_pc = "idle"
    /\ emitted = [button |-> Button(ck_s.button_name), press |-> FALSE]
    /\ Button(settings.button_name) # Button(ck_s.button_name)
    /\ ~running
    /\ pressed = {}

\* C3: after n toggles stored by the hotkey thread since the last other write to
\* running (none of them computed from a value loaded before that write), running is
\* the value that write left when n is even and its negation when n is odd.
C3_ToggleParity ==
    (~tg_raced /\ tg_n < MaxToggles) =>
        running = (IF tg_n % 2 = 0 THEN tg_base ELSE ~tg_base)

\* C3 witness: two toggles have brought running back to TRUE.
C3_Witness == ~tg_raced /\ tg_n = 2 /\ tg_base /\ running

\* C4: when the hotkey thread has finished the rebind block of a poll cycle in which
\* the text resolved to a keycode, the grabs are exactly the 8 modifier combinations
\* of that keycode (none of another keycode), which is the recorded one; this holds
\* already when the last grab of a rebind has been requested.
C4_RebindGrabsNewKeycode ==
    /\ hk_pc = "record" => grabs = GrabsOf(hk_nk) /\ Cardinality(grabs) = 8
    /\ (hk_pc = "events" /\ hk_nk # 0) =>
          /\ last_keycode = hk_nk
          /\ grabs = GrabsOf(hk_nk)
          /\ Cardinality(grabs) = 8

\* C4 witness: a rebind from one keycode to another has made its last grab.
C4_Witness ==
    /\ hk_pc = "record"
    /\ last_keycode # 0
    /\ hk_nk # last_keycode
    /\ grabs = GrabsOf(hk_nk)

\* C5: all the grabbed <<keycode, modifiers>> pairs have one keycode, in every state,
\* those between the single ungrab and grab calls of a rebind included.
C5_OneKeycodeGrabbed == \A g \in grabs, h \in grabs : g[1] = h[1]

\* C5 witness: in the middle of the grab calls of a rebind.
C5_Witness ==
    /\ hk_pc = "grab"
    /\ hk_i = 4
    /\ hk_nk # last_keycode
    /\ Cardinality(grabs) = 3

\* C6 as stated: the on_time of every cycle is at least the 1 ms floor.
C6_OnTimeAtLeastMinPress ==
    InCycle => OnTime(ck_s.cps, ck_s.duty) >= MinPress

\* C6 as amended: the on_time of every cycle is at least the smaller of the 1 ms
\* floor and the period: at least 1 ms when the period is, and the whole period when
\* the period is shorter than 1 ms (rate 10000/s, duty 0.01 %: on_time = period =
\* 100 us).
C6_OnTimeAtLeastFloorOrPeriod ==
    InCycle =>
        /\ OnTime(ck_s.cps, ck_s.duty) >= Min(MinPress, Period(ck_s.cps))
        /\ Period(ck_s.cps) >= MinPress => OnTime(ck_s.cps, ck_s.duty) >= MinPress
        /\ Period(ck_s.cps) < MinPress => OnTime(ck_s.cps, ck_s.duty) = Period(ck_s.cps)
        /\ (ck_s.cps = 10000000 /\ ck_s.duty = 1) => OnTime(ck_s.cps, ck_s.duty) = 100

\* C6 witness: a cycle at 10000/s and a duty of 0.01 %.
C6_Witness ==
    InCycle /\ ck_s.cps = 10000000 /\ ck_s.duty = 1 /\ RawOnTime(ck_s.cps, ck_s.duty) < MinPress

\* C7: for a rate > 0 and a duty in 0 .. 100 %, on_time + off_time is the period, and
\* an on_time that differs from period * duty is the 1 ms floor or the period (rate
\* 10/s, duty 50 %: period 100 ms, on_time 50 ms, off_time 50 ms).
C7_OnPlusOffIsPeriod ==
    (InCycle /\ ck_s.cps > 0 /\ ck_s.duty \in 0..10000) =>
        LET on  == OnTime(ck_s.cps, ck_s.duty)
            off == OffTime(ck_s.cps, ck_s.duty)
            per == Period(ck_s.cps)
        IN  /\ on + off = per
            /\ on # RawOnTime(ck_s.cps, ck_s.duty) => on \in {MinPress, per}
            /\ (ck_s.cps = 10000 /\ ck_s.duty = 5000) =>
                  per = 100000 /\ on = 50000 /\ off = 50000

\* C7 witness: a cycle at a rate above 1000/s whose on_time was clamped.
C7_Witness ==
    /\ InCycle
    /\ ck_s.cps = 3000000
    /\ ck_s.duty = 5000
    /\ OnTime(ck_s.cps, ck_s.duty) # RawOnTime(ck_s.cps, ck_s.duty)

\* C8: the off_time of every cycle is >= 0, for any rate and duty; at a duty of 100 %
\* (or more) it is 0 and the thread goes from the release to the loop head with no
\* idle sleep: the idle sleep is entered with an off_time > 0 only.
C8_OffTimeNotNegative ==
    InCycle =>
        /\ OffTime(ck_s.cps, ck_s.duty) >= 0
        /\ ck_s.duty >= 10000 => (OffTime(ck_s.cps, ck_s.duty) = 0 /\ ck_pc # "idle")
        /\ ck_pc = "idle" => OffTime(ck_s.cps, ck_s.duty) > 0

\* C8 witness: at a duty of 100 % a cycle has released its button and the thread is
\* back at the loop head.
C8_Witness ==
    /\ settings.duty = 10000
    /\ ck_pc = "loop"
    /\ emitted = [button |-> 1, press |-> FALSE]

\* C9 as stated: the period is 1 / max(rate, 0.1), so at most 10 s.
C9_PeriodOfFlooredRate ==
    InCycle =>
        /\ Period(ck_s.cps) = 1000000000 \div Max(ck_s.cps, 100)
        /\ Period(ck_s.cps) <= 10000000

\* C9 as amended: the period is 1 / rate for every rate > 0 (the quotient of 10^9 by
\* the rate in thousandths), also for a rate below 0.1, and 10 s for a rate <= 0
\* only; over the rates the GUI admits it is at most 1000 s.
C9_PeriodOfPositiveRate ==
    InCycle =>
        LET per == Period(ck_s.cps)
        IN  /\ ck_s.cps <= 0 => per = 10000000
            /\ ck_s.cps > 0 =>
                  /\ per * ck_s.cps <= 1000000000
                  /\ 1000000000 - per * ck_s.cps < ck_s.cps
            /\ ck_s.cps = 1 => per = 1000000000
            /\ ck_s.cps \in CpsMin..CpsMax => per <= 1000000000

\* C9 witness: a cycle at the smallest rate the GUI admits, 0.001/s.
C9_Witness == InCycle /\ ck_s.cps = CpsMin /\ Period(ck_s.cps) > 10000000

\* C10 as stated: a failure to resolve the hotkey text never ends the hotkey thread,
\* the first resolution at its start included.
C10_ResolveFailureNeverEndsThread == hk_pc # "err_resolve"

\* Both threads have run to their end.
BothDone == hk_pc = "done" /\ ck_pc = "done"

\* C11: should_exit is false when the program starts, and a step changes it only
\* from false to true, and only as the first store of Drop: no step of the hotkey
\* thread, of the click thread or of a frame of the GUI changes it, and once true it
\* stays true.
C11_ShouldExitSetOnce ==
    /\ ~should_exit
    /\ [][should_exit' # should_exit =>
             /\ ~should_exit /\ should_exit'
             /\ gui_pc = "frame" /\ gui_pc' = "drop"
             /\ hkVars' = hkVars /\ ckVars' = ckVars]_vars

\* C11 witness: Drop has run to its end, both threads have seen should_exit and have
\* closed their connections, and should_exit is still true.
C11_Witness == should_exit /\ gui_pc = "dropped" /\ BothDone /\ emitted.button # 0

\* A step emits no button event.
NoButtonEvent == UNCHANGED <<pressed, emitted, last_down>>

\* C12: a "button down" is emitted only by the press of a cycle, a cycle is entered
\* only from the check of running in a state where running is true, and that check
\* is reached only from the loop head in a state where should_exit is false; an
\* iteration whose check finds running false goes to the 5 ms sleep and back to the
\* loop head, and neither step emits a button event.
C12_DownOnlyAfterReadingRunning ==
    [][/\ (ck_pc' = "check" /\ ck_pc # "check") => (ck_pc = "loop" /\ ~should_exit)
       /\ (ck_pc' = "snapshot" /\ ck_pc # "snapshot") => (ck_pc = "check" /\ running)
       /\ (ck_pc' = "press" /\ ck_pc # "press") => ck_pc = "snapshot"
       /\ (emitted'.press /\ emitted' # emitted) => (ck_pc = "press" /\ ck_pc' = "hold")
       /\ (pressed' \ pressed # {}) => (ck_pc = "press" /\ ck_pc' = "hold")
       /\ (ck_pc = "check" /\ ~running /\ ck_pc' # ck_pc) =>
             (ck_pc' = "sleep" /\ ck_sleep' = IdleSleep /\ NoButtonEvent)
       /\ (ck_pc = "sleep" /\ ck_pc' # ck_pc) => (ck_pc' = "loop" /\ NoButtonEvent)]_vars

\* C12 witness: an iteration that found running false is in its sleep, after an
\* earlier cycle on button 9; nothing is pressed and the last event is that cycle's
\* release.
C12_Witness ==
    /\ ck_pc = "sleep" /\ ~running /\ ~should_exit /\ ck_sleep = IdleSleep
    /\ pressed = {} /\ emitted = [button |-> 9, press |-> FALSE]

\* C13: the hotkey thread is in its cleanup only after should_exit was set; there,
\* the grabs that remain are those of last_keycode on the modifier combinations not
\* yet released, so the cleanup releases all 8; once the cleanup is over (the
\* connection is about to be closed, or is closed and the thread has returned) no
\* grab is registered and no event is queued on the closed connection.
C13_NoGrabAfterExit ==
    /\ hk_pc = "cleanup" =>
          /\ should_exit
          /\ hk_i \in 1..NumVariants
          /\ grabs = {<<last_keycode, MOD_VARIANTS[i]>> : i \in hk_i..NumVariants}
    /\ hk_pc \in {"close", "done"} => (should_exit /\ grabs = {})
    /\ hk_pc = "done" => xqueue = <<>>

\* C13 witness: the thread has returned after a rebind to "q" (keycode 24): the
\* grabs it released were those of the rebound keycode.
C13_Witness == hk_pc = "done" /\ last_keycode = 24 /\ grabs = {} /\ should_exit

\* A thread could not open its display, and has returned.
HkFailed == hk_pc = "err_display"
CkFailed == ck_pc = "err_display"

\* The hotkey thread is in its loop with no rebind in progress.
HkSettled == hk_pc \in {"loop", "resolve", "events", "load", "store"}

\* C14: a thread that could not open its display never acts again and writes
\* neither running nor should_exit, in the step in which it fails or later: when
\* the hotkey thread has failed, running changes only by a write of the GUI, the
\* click thread can always take its next step, and its check of running enters a
\* cycle exactly when running is true; when the click thread has failed, running
\* changes only by a write of the GUI or by the store of a toggle, the hotkey thread
\* can always take its next step, holds the 8 grabs of last_keycode whenever no
\* rebind is in progress, and its store writes the toggled value.
C14_FailuresIsolated ==
    /\ [](/\ HkFailed =>
               /\ grabs = {} /\ tg_n = 0
               /\ ck_pc \notin {"done", "err_display"} => ENABLED CkStep
          /\ CkFailed =>
               /\ pressed = {} /\ emitted = NoEvent
               /\ hk_pc \notin {"done", "err_display", "err_resolve"} => ENABLED HkStep
               /\ HkSettled => grabs = GrabsOf(last_keycode))
    /\ [][/\ HkFailed' =>
               /\ hk_pc \in {"open", "err_display"}
               /\ (running' # running \/ should_exit' # should_exit) => gui_pc' # gui_pc
          /\ HkFailed =>
               /\ hkVars' = hkVars
               /\ (ck_pc = "check" /\ ck_pc' # ck_pc) =>
                     ck_pc' = IF running THEN "snapshot" ELSE "sleep"
          /\ CkFailed' =>
               /\ ck_pc \in {"open", "err_display"}
               /\ should_exit' # should_exit => gui_pc' # gui_pc
               /\ running' # running => (gui_pc' # gui_pc \/ hk_pc = "store")
          /\ CkFailed =>
               /\ ckVars' = ckVars
               /\ (hk_pc = "store" /\ hk_pc' # hk_pc) => running' = hk_new_state]_vars

\* C14 witness: the hotkey thread has failed; the GUI started the click thread, which
\* clicked on button 9, and stopped it again: the click thread is back in its sleep.
C14_Witness ==
    /\ HkFailed /\ ~should_exit /\ ~running
    /\ ck_pc = "sleep" /\ emitted = [button |-> 9, press |-> FALSE] /\ pressed = {}

\* The button a selector stands for: 1, 2, 3 for left, middle, right in any case, the
\* value of a numeral between 1 and 9, and 1 for anything else.
ExpectedButton(name) ==
    CASE name \in { <<"l","e","f","t">>, <<"L","e","f","t">>, <<"L","E","F","T">> } -> 1
      [] name \in { <<"m","i","d","d","l","e">>, <<"M","i","d","d","l","e">>,
                    <<"m","I","d","D","l","E">> } -> 2
      [] name \in { <<"r","i","g","h","t">>, <<"R","i","g","h","t">>,
                    <<"R","I","G","H","T">> } -> 3
      [] name = <<"1">> -> 1
      [] name = <<"2">> -> 2
      [] name \in { <<"5">>, <<"+","5">>, <<"0","5">> } -> 5
      [] name = <<"9">> -> 9
      [] OTHER -> 1

\* C15: every button event of the click thread is on a button in 1..9; in a cycle
\* the button is the one the selector of the snapshot stands for (left, middle,
\* right in any case, or a numeral with a value in 1..9), and button 1 for any other
\* selector (text that is no number, 0, a number above 9); the cycle emits its press
\* and its release on that button whatever the selector.
C15_ButtonInRange ==
    /\ pressed \subseteq 1..9
    /\ emitted # NoEvent => emitted.button \in 1..9
    /\ last_button \in 1..9
    /\ InCycle =>
          /\ ck_s.button_name \in ButtonInputs
          /\ last_button = ExpectedButton(ck_s.button_name)
          /\ ck_s.button_name \in RejectedInputs => last_button = 1
    /\ ck_pc = "hold" =>
          /\ emitted = [button |-> ExpectedButton(ck_s.button_name), press |-> TRUE]
          /\ pressed = {ExpectedButton(ck_s.button_name)}
    /\ ck_pc = "idle" =>
          /\ emitted = [button |-> ExpectedButton(ck_s.button_name), press |-> FALSE]
          /\ pressed = {}

\* C15 witness: a cycle on the selector "10" has emitted its press and its release,
\* both on button 1.
C15_Witness ==
    /\ ck_pc = "idle" /\ ck_s.button_name = <<"1","0">>
    /\ emitted = [button |-> 1, press |-> FALSE] /\ pressed = {}

\* The click thread holds an open display connection.
CkConnected == ck_pc \notin {"open", "err_display", "done"}

\* C16: if from some point on running stays true, should_exit stays false and the
\* click thread holds an open connection, then the click thread is infinitely often
\* holding a button it pressed and infinitely often past the release of it.  Each
\* cycle works on the snapshot of the settings taken at its start and on nothing
\* read later: the press and the release are on the button of the snapshot, the
\* sleep after the press is the on_time of the snapshot, and the sleep after the
\* release its off_time (no sleep when off_time is 0).
C16_ActuationLive ==
    /\ <>[](running /\ ~should_exit /\ CkConnected) =>
          /\ []<>(ck_pc = "hold" /\ emitted.press /\ pressed # {})
          /\ []<>(ck_pc # "hold" /\ ~emitted.press /\ emitted # NoEvent /\ pressed = {})
    /\ [](/\ ck_pc = "hold" =>
               /\ emitted = [button |-> Button(ck_s.button_name), press |-> TRUE]
               /\ ck_sleep = OnTime(ck_s.cps, ck_s.duty)
          /\ ck_pc = "idle" =>
               /\ emitted = [button |-> Button(ck_s.button_name), press |-> FALSE]
               /\ ck_sleep = OffTime(ck_s.cps, ck_s.duty) /\ ck_sleep > 0)
    /\ [][/\ (ck_pc = "snapshot" /\ ck_pc' # ck_pc) =>
               /\ ck_pc' = "press"
               /\ ck_s' = [cps |-> settings.cps, duty |-> settings.duty,
                           button_name |-> settings.button_name]
          /\ (InCycle /\ InCycle') => ck_s' = ck_s
          /\ (ck_pc = "hold" /\ ck_pc' = "loop") =>
               /\ OffTime(ck_s.cps, ck_s.duty) = 0 /\ ck_sleep' = 0
               /\ emitted' = [button |-> Button(ck_s.button_name), press |-> FALSE]]_vars

\* C16 witness: running, a button is held for the on_time of the cycle's snapshot
\* although the rate, the duty and the button of the settings have changed since.
C16_Witness ==
    /\ running /\ ~should_exit /\ ck_pc = "hold"
    /\ settings.cps # ck_s.cps /\ settings.duty # ck_s.duty
    /\ settings.button_name # ck_s.button_name
    /\ emitted = [button |-> Button(ck_s.button_name), press |-> TRUE]
    /\ ck_sleep = OnTime(ck_s.cps, ck_s.duty)
    /\ ck_sleep # OnTime(settings.cps, settings.duty)

\* C17 as stated: the store of a toggle writes the negation of the value running
\* holds immediately before that store, whatever the GUI wrote since the toggle's
\* load.
C17_StoreNegatesCurrent ==
    [][(hk_pc = "store" /\ hk_pc' # hk_pc) => running' = ~running]_vars

\* C18 as stated: once Drop has stored should_exit = true and running = false,
\* running is false in every state that follows.
C18_NotRunningAfterDrop == gui_pc = "dropped" => ~running

\* A thread has returned.
HkReturned == hk_pc \in {"done", "err_display", "err_resolve"}
CkReturned == ck_pc \in {"done", "err_display"}

\* C19: once should_exit is set, both threads eventually return.  After should_exit
\* was set the click thread emits at most one more "button down" and the hotkey
\* thread consumes at most one more event; a thread that has not returned always has
\* a step it can take, whatever the other thread, the GUI and the event queue do.
C19_ShutdownTerminates ==
    /\ should_exit ~> (HkReturned /\ CkReturned)
    /\ [](/\ ex_downs <= 1
          /\ ex_events <= 1
          /\ ~HkReturned => ENABLED HkStep
          /\ ~CkReturned => ENABLED CkStep)

\* C19 witness: both threads have returned after should_exit, the click thread
\* having pressed once more and the hotkey thread having consumed one more event.
C19_Witness ==
    /\ should_exit /\ BothDone
    /\ ex_downs = 1 /\ ex_events = 1

\* The event at the head of the queue is a KeyPress of the keycode grabbed now.
HeadMatches ==
    /\ xqueue # <<>>
    /\ Head(xqueue).type = "KeyPress"
    /\ Head(xqueue).keycode = last_keycode

=============================================================================
